---- MODULE Spec2Model ----
(***************************************************************************)
(* Model of the tailscale-local-api client: the TailscaleLocalApi class    *)
(* (constructor, credential discovery, dispatch function, startup probe    *)
(* with backoff, the per-endpoint calls) and the key normalizer of util.ts *)
(* (words, toCamelCase, toCamelCaseKeys).                                  *)
(*                                                                         *)
(* Strings the code only passes around are TLA+ strings; strings the code  *)
(* parses, trims, encodes or tokenizes are sequences of one-character      *)
(* strings.  An optional field (T | undefined) is a set: {} or {value}.    *)
(***************************************************************************)
EXTENDS Integers, Sequences, FiniteSets, TLC

VARIABLES
    phase,            \* "uninitialized" | "constructed" | "threw" (constructor outcome)
    environment,      \* this.environment
    useSocketOnly,    \* this.useSocketOnly
    socketPath,       \* this.socketPath
    adapterPort,      \* this.adapterPort     ({} = undefined)
    adapterPassword,  \* this.adapterPassword ({} = undefined)
    baseUrl,          \* this.baseUrl
    fetchFn,          \* this.fetch: "none" | "socket" | "tcp" (which closure createFetchFn returned)
    ipnport,          \* macOS host: target of /Library/Tailscale/ipnport ({} = unreadable)
    sameuserproof,    \* macOS host: content of sameuserproof-<target> ({} = unreadable)
    retryCount,       \* argument of the latest connectWithRetry invocation
    probe,            \* the status request of connectWithRetry in flight: {} or {request}
    timer,            \* the pending setTimeout of connectWithRetry: {} or {[nextRetry, delay]}
    ready,            \* a probe received an ok response ("Tailscale is running")
    exited,           \* exit(1) was called
    probesIssued,     \* history: number of probe requests issued
    probesFailed,     \* history: number of probes that ended in the catch handler
    inflight,         \* API calls awaiting their response: set of [success, reqs, req]
    lastOutcome,      \* how the latest finished API call ended: [result, reqs]
    data,             \* input of the key normalizer
    once,             \* toCamelCaseKeys(data)
    twice,            \* toCamelCaseKeys(toCamelCaseKeys(data))
    kpc,              \* position of the normalizer run: "idle" | "input" | "once" | "twice"
    key,              \* input of words and toCamelCase
    segs,             \* words(key)
    camel,            \* toCamelCase(key)
    wpc,              \* position of the key run: "idle" | "input" | "words" | "camel"
    addr,             \* argument of isInTailscaleIpRange
    inRange,          \* its result: {} is false, otherwise the string returned
    apc               \* position of the address run: "idle" | "input" | "done"

configVars == <<phase, environment, useSocketOnly, socketPath, adapterPort,
                adapterPassword, baseUrl, fetchFn, ipnport, sameuserproof>>
probeVars  == <<retryCount, probe, timer, ready, exited, probesIssued, probesFailed>>
callVars   == <<inflight, lastOutcome>>
normVars   == <<data, once, twice, kpc>>
wordVars   == <<key, segs, camel, wpc>>
addrVars   == <<addr, inRange, apc>>
keyVars    == <<normVars, wordVars, addrVars>>
vars       == <<configVars, probeVars, callVars, keyVars>>

-----------------------------------------------------------------------------
(* Bounds *)

\* API calls that may await a response at the same time.
MaxInflight == 2

-----------------------------------------------------------------------------
(* Program constants *)

maxRetries == 5
retryDelay == 5000

Platforms    == {"win32", "darwin", "linux"}

\* Generic sequence helpers.
RECURSIVE Concat(_)
Concat(ss) == IF ss = <<>> THEN <<>> ELSE Head(ss) \o Concat(Tail(ss))

RECURSIVE Pow(_, _)
Pow(b, n) == IF n = 0 THEN 1 ELSE b * Pow(b, n - 1)

-----------------------------------------------------------------------------
(* Environment detection *)

\* isRunningInContainer: /.dockerenv, KUBERNETES_SERVICE_HOST, /proc/1/cgroup on linux.
isRunningInContainer(platform, dockerenv, k8s, cgroupHit) ==
    \/ dockerenv
    \/ k8s
    \/ (platform = "linux" /\ cgroupHit)

interrogateEnvironment(platform, dockerenv, k8s, cgroupHit) ==
    IF isRunningInContainer(platform, dockerenv, k8s, cgroupHit) THEN "container"
    ELSE IF platform = "win32" THEN "windows"
    ELSE IF platform = "darwin" THEN "macos"
    ELSE "unix"

\* socketPath = options.socketPath ?? (container ? /tmp/... : /var/run/...)
defaultSocketPath(env, optPath) ==
    IF optPath # {} THEN CHOOSE p \in optPath : TRUE
    ELSE IF env = "container" THEN "/tmp/tailscaled.sock"
    ELSE "/var/run/tailscaled.socket"

-----------------------------------------------------------------------------
(* Characters *)

Digits     == <<"0", "1", "2", "3", "4", "5", "6", "7", "8", "9">>
DigitSet   == {Digits[i] : i \in 1..10}
DigitVal(c) == (CHOOSE i \in 1..10 : Digits[i] = c) - 1

\* White space that parseInt skips and String.prototype.trim strips.
TrimSpace  == {" ", "\t", "\n", "\r"}

RECURSIVE DropWhile(_, _)
DropWhile(s, S) ==
    IF s # <<>> /\ Head(s) \in S THEN DropWhile(Tail(s), S) ELSE s

RECURSIVE TakeWhile(_, _)
TakeWhile(s, S) ==
    IF s # <<>> /\ Head(s) \in S THEN <<Head(s)>> \o TakeWhile(Tail(s), S) ELSE <<>>

RECURSIVE Reverse(_)
Reverse(s) == IF s = <<>> THEN <<>> ELSE Reverse(Tail(s)) \o <<Head(s)>>

\* String.prototype.trim
trim(s) == Reverse(DropWhile(Reverse(DropWhile(s, TrimSpace)), TrimSpace))

RECURSIVE DecimalValue(_, _)
DecimalValue(ds, acc) ==
    IF ds = <<>> THEN acc ELSE DecimalValue(Tail(ds), 10 * acc + DigitVal(Head(ds)))

\* parseInt(s, 10): skips leading white space, reads an optional sign and the
\* longest run of decimal digits, and ignores whatever follows.  {} is NaN.
parseInt(s) ==
    LET t      == DropWhile(s, TrimSpace)
        neg    == t # <<>> /\ Head(t) = "-"
        u      == IF t # <<>> /\ Head(t) \in {"-", "+"} THEN Tail(t) ELSE t
        digits == TakeWhile(u, DigitSet)
    IN  IF digits = <<>> THEN {}
        ELSE {IF neg THEN 0 - DecimalValue(digits, 0) ELSE DecimalValue(digits, 0)}

\* A string is a decimal number: one or more decimal digits and nothing else.
IsDecimal(s) == s # <<>> /\ \A i \in 1..Len(s) : s[i] \in DigitSet

-----------------------------------------------------------------------------
(* Credential discovery *)

\* What readlinkSync("/Library/Tailscale/ipnport") can give: {} is a thrown
\* error, otherwise the link target.
LinkTargets == { {}, {<<"1", "2">>}, {<<"1", "2", "a">>}, {<<"a">>} }

\* What readFileSync("/Library/Tailscale/sameuserproof-<portStr>") can give.
ProofFiles == { {}, {<<" ", "d", "e", "\n">>}, {<<" ", "\n">>}, {<<>>} }

\* getCredentialsFromSameuserProof: [ok, port, auth]; ok = FALSE is the
\* rethrown "Failed to read credentials" error, raised before any assignment.
getCredentialsFromSameuserProof(link, file) ==
    LET failed == [ok |-> FALSE, port |-> {}, auth |-> {}]
    IN  IF link = {} THEN failed
        ELSE LET portStr == CHOOSE t \in link : TRUE
                 port    == parseInt(portStr)
             IN  IF port = {} THEN failed
                 ELSE IF file = {} THEN failed
                 ELSE LET auth == trim(CHOOSE f \in file : TRUE)
                      IN  IF auth = <<>> THEN failed
                          ELSE [ok |-> TRUE, port |-> port, auth |-> {auth}]

-----------------------------------------------------------------------------
(* Base64 (Buffer.from(str).toString("base64")) over the characters used *)

B64Alphabet ==
    <<"A","B","C","D","E","F","G","H","I","J","K","L","M","N","O","P",
      "Q","R","S","T","U","V","W","X","Y","Z","a","b","c","d","e","f",
      "g","h","i","j","k","l","m","n","o","p","q","r","s","t","u","v",
      "w","x","y","z","0","1","2","3","4","5","6","7","8","9","+","/">>

\* UTF-8 code of the characters that occur in a token.
CharCode(c) ==
    CASE c = ":" -> 58
      [] c = "d" -> 100
      [] c = "e" -> 101
      [] c = " " -> 32
      [] c = "\n" -> 10
      [] OTHER -> 63

RECURSIVE Base64Bytes(_)
Base64Bytes(b) ==
    IF b = <<>> THEN <<>>
    ELSE IF Len(b) = 1 THEN
        <<B64Alphabet[(b[1] \div 4) + 1], B64Alphabet[((b[1] % 4) * 16) + 1], "=", "=">>
    ELSE IF Len(b) = 2 THEN
        <<B64Alphabet[(b[1] \div 4) + 1],
          B64Alphabet[((b[1] % 4) * 16 + b[2] \div 16) + 1],
          B64Alphabet[((b[2] % 16) * 4) + 1], "=">>
    ELSE
        <<B64Alphabet[(b[1] \div 4) + 1],
          B64Alphabet[((b[1] % 4) * 16 + b[2] \div 16) + 1],
          B64Alphabet[((b[2] % 16) * 4 + b[3] \div 64) + 1],
          B64Alphabet[(b[3] % 64) + 1]>> \o Base64Bytes(SubSeq(b, 4, Len(b)))

Base64(s) == Base64Bytes([i \in 1..Len(s) |-> CharCode(s[i])])

-----------------------------------------------------------------------------
(* Requests and the dispatch function *)

HeaderNames == {"Authorization", "Host", "Content-Type", "Content-Length"}

\* A headers object: header name -> value (a sequence of strings), <<>> = not set.
NoHeaders == [h \in HeaderNames |-> <<>>]

\* Mutant of SpreadHeaders: headers passed by the caller replace the defaults.
SpreadHeaders_CallerReplaces(defaults, headers) ==
    IF headers = [h \in HeaderNames |-> <<>>] THEN defaults ELSE headers

\* { ...defaults, ...headers }: the keys of the second object win.
SpreadHeaders(defaults, headers) ==
    [h \in HeaderNames |-> IF headers[h] # <<>> THEN headers[h] ELSE defaults[h]]

\* The default second parameter of the dispatch function.
DefaultOptions == [method |-> "GET", headers |-> NoHeaders, body |-> "null"]

SocketBaseUrl == [host |-> "local-tailscaled.sock", port |-> {}]

\* `Basic ${Buffer.from(`:${password}`).toString("base64")}`
BasicAuth(password) == <<"Basic", " ">> \o Base64(<<":">> \o password)

\* A request is recorded by how it is sent: the transport, the origin of its
\* URL (this.baseUrl; the path appended to it takes no part in any transport
\* decision and is not recorded), the method, the headers and the body.

\* The closure returned by the first branch of createFetchFn.
SocketFetch(path, options) ==
    [via |-> "dispatch", transport |-> "unix", socket |-> {socketPath},
     url |-> baseUrl, method |-> options.method,
     headers |-> options.headers, body |-> options.body]

\* The closure returned by the second branch of createFetchFn; it reads
\* this.baseUrl and this.adapterPassword when it is called.
TcpFetch(path, options) ==
    [via |-> "dispatch", transport |-> "tcp", socket |-> {},
     url |-> baseUrl, method |-> options.method,
     headers |-> SpreadHeaders(
         [NoHeaders EXCEPT
            !["Authorization"] =
                IF adapterPassword = {} THEN <<"Basic", " ">> \o Base64(<<":">>)
                ELSE BasicAuth(CHOOSE p \in adapterPassword : TRUE),
            !["Host"] = <<"local-tailscaled.sock">>],
         options.headers),
     body |-> options.body]

\* this.fetch(path, options)
ThisFetch(path, options) ==
    IF fetchFn = "socket" THEN SocketFetch(path, options) ELSE TcpFetch(path, options)

\* undici's fetch called directly with `${this.baseUrl}${path}`: no dispatcher,
\* no added headers; it connects over TCP to the host of the URL.
GlobalFetch(path, options) ==
    [via |-> "direct", transport |-> "tcp", socket |-> {},
     url |-> baseUrl, method |-> options.method,
     headers |-> options.headers, body |-> options.body]

\* createFetchFn: which closure is built, and the baseUrl it leaves.
createFetchFn(env, socketOnly, port) ==
    IF socketOnly \/ env # "macos"
    THEN [fn |-> "socket", baseUrl |-> SocketBaseUrl]
    ELSE [fn |-> "tcp", baseUrl |-> [host |-> "127.0.0.1", port |-> port]]

-----------------------------------------------------------------------------
(* Startup probe: connectWithRetry *)

\* Mutant of CanRetry: the off-by-one guard that allows one more retry.
CanRetry_Inclusive(rc) == rc <= maxRetries

\* retryCount < this.maxRetries
CanRetry(rc) == rc < maxRetries

\* Mutant of BackoffDelay: the delay is capped at 20 s.
BackoffDelay_Capped(rc) ==
    LET d == (10 * retryDelay * Pow(3, rc)) \div Pow(2, rc)
    IN  IF d > 200000 THEN 200000 ELSE d

\* this.retryDelay * Math.pow(1.5, retryCount), in units of 1/10 ms so that
\* the value stays an integer: 1.5^n = 3^n / 2^n, and 2^n divides
\* 10 * retryDelay * 3^n for every n the guard lets through.
BackoffDelay(rc) == (10 * retryDelay * Pow(3, rc)) \div Pow(2, rc)

\* The call connectWithRetry(rc): issues this.fetch("/localapi/v0/status").
StartProbe(rc) ==
    /\ retryCount' = rc
    /\ probe' = {ThisFetch("/localapi/v0/status", DefaultOptions)'}
    /\ probesIssued' = probesIssued + 1

\* Mutant of ProbeOk: a successful probe schedules another probe (keep-alive).
ProbeOk_Reprobe ==
    /\ probe # {} /\ ~exited
    /\ probe' = {}
    /\ ready' = TRUE
    /\ timer' = {[nextRetry |-> retryCount, delay |-> 10 * retryDelay]}
    /\ UNCHANGED <<retryCount, exited, probesIssued, probesFailed>>
    /\ UNCHANGED <<configVars, callVars, keyVars>>

\* .then with resp.ok: log "Tailscale is running", nothing else.
ProbeOk ==
    /\ probe # {} /\ ~exited
    /\ probe' = {}
    /\ ready' = TRUE
    /\ UNCHANGED <<retryCount, timer, exited, probesIssued, probesFailed>>
    /\ UNCHANGED <<configVars, callVars, keyVars>>

\* Mutant of ProbeCatch: when the retries are exhausted the failure is only
\* logged; the process is not terminated.
ProbeCatch_NoExit ==
    /\ probe' = {}
    /\ probesFailed' = probesFailed + 1
    /\ IF CanRetry(retryCount)
       THEN timer' = {[nextRetry |-> retryCount + 1, delay |-> BackoffDelay(retryCount)]}
       ELSE UNCHANGED timer
    /\ UNCHANGED <<retryCount, ready, exited, probesIssued>>
    /\ UNCHANGED <<configVars, callVars, keyVars>>

\* The .catch handler: schedule the next attempt or exit(1).
ProbeCatch ==
    /\ probe' = {}
    /\ probesFailed' = probesFailed + 1
    /\ IF CanRetry(retryCount)
       THEN /\ timer' = {[nextRetry |-> retryCount + 1, delay |-> BackoffDelay(retryCount)]}
            /\ UNCHANGED exited
       ELSE /\ exited' = TRUE
            /\ UNCHANGED timer
    /\ UNCHANGED <<retryCount, ready, probesIssued>>
    /\ UNCHANGED <<configVars, callVars, keyVars>>

\* .then with !resp.ok: throws, so the .catch handler runs.
ProbeNotOk ==
    /\ probe # {} /\ ~exited
    /\ ProbeCatch

\* The fetch promise rejects (network error): the .catch handler runs.
ProbeReject ==
    /\ probe # {} /\ ~exited
    /\ ProbeCatch

\* The setTimeout callback: connectWithRetry(nextRetry).
TimerFire ==
    /\ timer # {} /\ ~exited
    /\ UNCHANGED <<configVars, callVars, keyVars>>
    /\ LET t == CHOOSE x \in timer : TRUE
       IN  /\ StartProbe(t.nextRetry)
           /\ timer' = {}
    /\ UNCHANGED <<ready, exited, probesFailed>>

-----------------------------------------------------------------------------
(* Constructor *)

\* options.socketPath: {} is undefined.
OptionSocketPaths == { {}, {"/custom/tailscaled.sock"} }

\* The hosts the constructor is run on: every platform with and without each
\* container mark; the socket path is overridden on plain linux hosts.
Hosts ==
    { h \in [platform : Platforms, dockerenv : BOOLEAN, k8s : BOOLEAN,
             cgroupHit : BOOLEAN, optPath : OptionSocketPaths] :
        h.optPath # {} =>
            (h.platform = "linux" /\ ~h.dockerenv /\ ~h.k8s /\ ~h.cgroupHit) }

\* new TailscaleLocalApi(options), in the environment the inputs describe.
Construct ==
    /\ phase = "uninitialized" /\ kpc = "idle"
    /\ \E optSocketOnly \in BOOLEAN, h \in Hosts,
          link \in LinkTargets, file \in ProofFiles :
        LET env   == interrogateEnvironment(h.platform, h.dockerenv, h.k8s, h.cgroupHit)
            creds == IF env = "macos"
                     THEN getCredentialsFromSameuserProof(link, file)
                     ELSE [ok |-> TRUE, port |-> {}, auth |-> {}]
            built == createFetchFn(env, optSocketOnly, creds.port)
        IN  /\ useSocketOnly' = optSocketOnly
            /\ ipnport' = IF env = "macos" THEN link ELSE {}
            /\ sameuserproof' = IF env = "macos" THEN file ELSE {}
            /\ environment' = env
            /\ socketPath' = defaultSocketPath(env, h.optPath)
            /\ adapterPort' = creds.port
            /\ adapterPassword' = creds.auth
            /\ IF creds.ok
               THEN /\ phase' = "constructed"
                    /\ fetchFn' = built.fn
                    /\ baseUrl' = built.baseUrl
                    /\ StartProbe(0)
               ELSE /\ phase' = "threw"
                    /\ UNCHANGED <<fetchFn, baseUrl, retryCount, probe, probesIssued>>
    /\ UNCHANGED <<timer, ready, exited, probesFailed>>
    /\ UNCHANGED <<callVars, keyVars>>

-----------------------------------------------------------------------------
(* API calls *)

JsonHeaders   == [NoHeaders EXCEPT !["Content-Type"] = <<"application/json">>]
LengthHeaders == [NoHeaders EXCEPT !["Content-Length"] = <<"3">>]

\* A call may be made on a constructed client while the process runs.
Callable ==
    /\ phase = "constructed" /\ ~exited
    /\ Cardinality(inflight) < MaxInflight

\* The call issues `req` and awaits the response, to which it will apply the
\* check `success`.  A call in flight is known by its request and its check;
\* calls that would be indistinguishable are not in flight together.
Await(success, req) ==
    LET c == [success |-> success, reqs |-> 1, req |-> req]
    IN  /\ c \notin inflight
        /\ inflight' = inflight \cup {c}
        /\ UNCHANGED <<lastOutcome, configVars, probeVars, keyVars>>

\* The call throws before any request is issued.
ThrowEarly ==
    /\ lastOutcome' = [result |-> "thrown", reqs |-> 0]
    /\ UNCHANGED <<inflight, configVars, probeVars, keyVars>>

whoIs ==
    /\ Callable
    /\ Await("ok", ThisFetch("/localapi/v0/whois", DefaultOptions))

prefs ==
    /\ Callable
    /\ Await("ok", ThisFetch("/localapi/v0/prefs", DefaultOptions))

goroutines ==
    /\ Callable
    /\ Await("ok", ThisFetch("/localapi/v0/goroutines", DefaultOptions))

daemonMetrics ==
    /\ Callable
    /\ Await("ok", ThisFetch("/localapi/v0/metrics", DefaultOptions))

userMetrics ==
    /\ Callable
    /\ Await("ok", ThisFetch("/localapi/v0/usermetrics", DefaultOptions))

\* Throws on a negative delta; otherwise calls undici's fetch, not this.fetch.
incrementCounter ==
    /\ Callable
    /\ \E delta \in {-1, 0, 1} :
        IF delta < 0 THEN ThrowEarly
        ELSE Await("ok",
                   GlobalFetch("/localapi/v0/upload-client-metrics",
                               [method |-> "POST", headers |-> JsonHeaders, body |-> "json"]))

\* status() and statusWithoutPeers() are getStatus(true) and getStatus(false).
status ==
    /\ Callable
    /\ Await("ok", ThisFetch("/localapi/v0/status", DefaultOptions))

statusWithoutPeers ==
    /\ Callable
    /\ Await("ok",
             ThisFetch("/localapi/v0/status?peers=false", DefaultOptions))

\* waitingFiles() is awaitWaitingFiles(0).
waitingFiles ==
    /\ Callable
    /\ Await("ok", ThisFetch("/localapi/v0/files/?waitsec=", DefaultOptions))

deleteWaitingFile ==
    /\ Callable
    /\ Await("204",
             ThisFetch("/localapi/v0/files/",
                       [method |-> "DELETE", headers |-> NoHeaders, body |-> "null"]))

\* Calls undici's fetch, not this.fetch.
getWaitingFile ==
    /\ Callable
    /\ Await("200 not chunked", GlobalFetch("/localapi/v0/files/", DefaultOptions))

fileTargets ==
    /\ Callable
    /\ Await("ok", ThisFetch("/localapi/v0/file-targets", DefaultOptions))

\* The path overload reads the file first (statSync/readFileSync may throw) and
\* then runs the options overload; Content-Length is set unless size is -1.
pushFile ==
    /\ Callable
    /\ \E byPath \in BOOLEAN, readable \in BOOLEAN, size \in {-1, 3} :
        IF byPath /\ ~readable THEN ThrowEarly
        ELSE Await("200",
                   ThisFetch("/localapi/v0/file-put/",
                             [method |-> "PUT",
                              headers |-> IF byPath \/ size # -1 THEN LengthHeaders
                                          ELSE NoHeaders,
                              body |-> "bytes"]))

start ==
    /\ Callable
    /\ \E withOptions \in BOOLEAN :
        Await("204",
              ThisFetch("/localapi/v0/start",
                        [method |-> "POST", headers |-> JsonHeaders,
                         body |-> IF withOptions THEN "json" ELSE "null"]))

logout ==
    /\ Callable
    /\ Await("204",
             ThisFetch("/localapi/v0/logout",
                       [method |-> "POST", headers |-> NoHeaders, body |-> "null"]))

startLoginInteractive ==
    /\ Callable
    /\ Await("204",
             ThisFetch("/localapi/v0/login-interactive",
                       [method |-> "POST", headers |-> NoHeaders, body |-> "null"]))

\* What the awaited fetch promise can settle to: a rejection (network error)
\* or a response with a status and a transfer encoding.
Responses ==
    { [rejected |-> TRUE,  status |-> 0,   chunked |-> FALSE],
      [rejected |-> FALSE, status |-> 200, chunked |-> FALSE],
      [rejected |-> FALSE, status |-> 200, chunked |-> TRUE],
      [rejected |-> FALSE, status |-> 204, chunked |-> FALSE],
      [rejected |-> FALSE, status |-> 500, chunked |-> FALSE] }

\* resp.ok
RespOk(st) == st >= 200 /\ st <= 299

\* The check each method applies to its response: resp.ok, status 204 or
\* status 200 (getWaitingFile also rejects a chunked transfer encoding).
Succeeds(c, r) ==
    /\ ~r.rejected
    /\ CASE c.success = "ok"  -> RespOk(r.status)
         [] c.success = "204" -> r.status = 204
         [] c.success = "200" -> r.status = 200
         [] c.success = "200 not chunked" -> r.status = 200 /\ ~r.chunked

\* The awaited response arrives and passes the method's check: the call returns.
ApiReturn ==
    /\ ~exited
    /\ \E c \in inflight, r \in Responses :
        /\ Succeeds(c, r)
        /\ inflight' = inflight \ {c}
        /\ lastOutcome' = [result |-> "returned", reqs |-> c.reqs]
    /\ UNCHANGED <<configVars, probeVars, keyVars>>

\* Mutant of ApiThrow: a failed call is retried once before it throws.
ApiThrow_Retry ==
    /\ ~exited
    /\ \E c \in inflight, r \in Responses :
        /\ ~Succeeds(c, r)
        /\ IF c.reqs < 2
           THEN /\ inflight' = (inflight \ {c}) \cup {[c EXCEPT !.reqs = c.reqs + 1]}
                /\ UNCHANGED lastOutcome
           ELSE /\ inflight' = inflight \ {c}
                /\ lastOutcome' = [result |-> "thrown", reqs |-> c.reqs]
    /\ UNCHANGED <<configVars, probeVars, keyVars>>

\* The fetch promise rejects, or the response fails the method's check: the
\* call throws to its caller.
ApiThrow ==
    /\ ~exited
    /\ \E c \in inflight, r \in Responses :
        /\ ~Succeeds(c, r)
        /\ inflight' = inflight \ {c}
        /\ lastOutcome' = [result |-> "thrown", reqs |-> c.reqs]
    /\ UNCHANGED <<configVars, probeVars, keyVars>>

-----------------------------------------------------------------------------
(* util.ts: words, toCamelCase, toCamelCaseKeys *)

\* Longest key the normalizer is run on.
MaxKeyLen == 3

LowerLetters == <<"a","b","c","d","e","f","g","h","i","j","k","l","m",
                  "n","o","p","q","r","s","t","u","v","w","x","y","z">>
UpperLetters == <<"A","B","C","D","E","F","G","H","I","J","K","L","M",
                  "N","O","P","Q","R","S","T","U","V","W","X","Y","Z">>

\* /[a-z]/u, /[A-Z]/u and /\d/u on one character.
IsLower(c) == \E i \in 1..26 : LowerLetters[i] = c
IsUpper(c) == \E i \in 1..26 : UpperLetters[i] = c
IsDigit(c) == c \in DigitSet

\* String.prototype.toLowerCase / toUpperCase on one character.
CharToLower(c) ==
    IF IsUpper(c) THEN LowerLetters[CHOOSE i \in 1..26 : UpperLetters[i] = c] ELSE c
CharToUpper(c) ==
    IF IsLower(c) THEN UpperLetters[CHOOSE i \in 1..26 : LowerLetters[i] = c] ELSE c

toLowerCase(str) == [i \in 1..Len(str) |-> CharToLower(str[i])]

\* WORD_SEPARATORS: "-", "_" and WHITESPACE (its ASCII members).
WORD_SEPARATORS == {"-", "_", "\t", "\n", "\f", "\r", " "}

\* flush(): push the word if it is not empty.
\* Mutant of flush: the word is pushed even when it is empty.
flush_KeepsEmpty(results, word) == Append(results, word)

flush(results, word) == IF Len(word) > 0 THEN Append(results, word) ELSE results

\* /[a-z]$/u, /[A-Z][A-Z]$/u and /\d$/u on the word being built.
EndsLower(word)    == Len(word) >= 1 /\ IsLower(word[Len(word)])
\* Mutant of EndsTwoUpper: the upper-upper-to-lower rule never applies.
EndsTwoUpper_Never(word) == FALSE

EndsTwoUpper(word) == Len(word) >= 2 /\ IsUpper(word[Len(word)])
                                     /\ IsUpper(word[Len(word) - 1])
EndsDigit(word)    == Len(word) >= 1 /\ IsDigit(word[Len(word)])

\* The for loop of words() from character i on, then the final flush().
RECURSIVE wordsLoop(_, _, _, _)
wordsLoop(str, i, results, word) ==
    IF i > Len(str) THEN flush(results, word)
    ELSE LET character == str[i]
         IN  IF character \in WORD_SEPARATORS
             THEN wordsLoop(str, i + 1, flush(results, word), <<>>)
             ELSE IF EndsLower(word) /\ IsUpper(character)
             THEN wordsLoop(str, i + 1, flush(results, word), <<character>>)
             ELSE IF EndsTwoUpper(word) /\ IsLower(character)
             THEN wordsLoop(str, i + 1,
                            flush(results, SubSeq(word, 1, Len(word) - 1)),
                            <<word[Len(word)], character>>)
             ELSE IF EndsDigit(word) # IsDigit(character)
             THEN wordsLoop(str, i + 1, flush(results, word), <<character>>)
             ELSE wordsLoop(str, i + 1, results, Append(word, character))

words(str) == wordsLoop(str, 1, <<>>, <<>>)

\* Mutant of toCamelCase: the first word is lower cased as a whole.
toCamelCase_LowerFirstWord(str) ==
    LET src == IF \E i \in 1..Len(str) : IsLower(str[i]) THEN str ELSE toLowerCase(str)
        ws  == words(src)
    IN  Concat([i \in 1..Len(ws) |->
                  IF i = 1 THEN toLowerCase(ws[i])
                  ELSE <<CharToUpper(ws[i][1])>> \o Tail(ws[i])])

\* The first word is uncapitalized, the rest are capitalized; the key is lower
\* cased first when it has no lower case character at all.
toCamelCase(str) ==
    LET src == IF \E i \in 1..Len(str) : IsLower(str[i]) THEN str ELSE toLowerCase(str)
        ws  == words(src)
    IN  Concat([i \in 1..Len(ws) |->
                  <<IF i = 1 THEN CharToLower(ws[i][1]) ELSE CharToUpper(ws[i][1])>>
                  \o Tail(ws[i])])

\* JSON values: [t |-> "scalar", v], [t |-> "array", items] and
\* [t |-> "object", entries], the entries being <<key, value>> pairs in
\* property order: array-index keys in ascending order, then the other keys in
\* insertion order.
Scalar(v)  == [t |-> "scalar", v |-> v]
Array(xs)  == [t |-> "array", items |-> xs]
Object(es) == [t |-> "object", entries |-> es]

\* A canonical array index: "0" or digits without a leading zero.
IsArrayIndex(k) ==
    /\ IsDecimal(k)
    /\ (Len(k) > 1 => k[1] # "0")

\* Where a new key goes in the property order.
RECURSIVE InsertEntry(_, _, _)
InsertEntry(es, k, v) ==
    IF es = <<>> THEN << <<k, v>> >>
    ELSE IF /\ IsArrayIndex(k)
            /\ (~IsArrayIndex(Head(es)[1])
                \/ DecimalValue(k, 0) < DecimalValue(Head(es)[1], 0))
         THEN << <<k, v>> >> \o es
         ELSE <<Head(es)>> \o InsertEntry(Tail(es), k, v)

\* Mutant of SetProperty: an existing key keeps its first value.
SetProperty_FirstWins(es, k, v) ==
    IF \E i \in 1..Len(es) : es[i][1] = k
    THEN es
    ELSE InsertEntry(es, k, v)

\* result[k] = v: an existing key keeps its place and takes the new value.
SetProperty(es, k, v) ==
    IF \E i \in 1..Len(es) : es[i][1] = k
    THEN [i \in 1..Len(es) |-> IF es[i][1] = k THEN <<k, v>> ELSE es[i]]
    ELSE InsertEntry(es, k, v)

RECURSIVE toCamelCaseKeys(_)
RECURSIVE camelEntries(_, _)

\* The for loop over Object.entries(data), building result.
camelEntries(es, result) ==
    IF es = <<>> THEN result
    ELSE camelEntries(Tail(es),
                      SetProperty(result, toCamelCase(Head(es)[1]),
                                  toCamelCaseKeys(Head(es)[2])))

toCamelCaseKeys(d) ==
    IF d.t = "array"
    THEN Array([i \in 1..Len(d.items) |-> toCamelCaseKeys(d.items[i])])
    ELSE IF d.t = "object"
    THEN Object(camelEntries(d.entries, <<>>))
    ELSE d

-----------------------------------------------------------------------------
(* Runs of the normalizer *)

KeyChars == {"a", "b", "A", "B", "1", "_"}

RECURSIVE StringsUpTo(_)
StringsUpTo(n) ==
    IF n = 0 THEN {<<>>}
    ELSE LET shorter == StringsUpTo(n - 1)
         IN  shorter \cup {Append(str, c) : str \in {x \in shorter : Len(x) = n - 1},
                                            c \in KeyChars}

Keys == StringsUpTo(MaxKeyLen)

\* Second keys of the two-property objects.
OtherKeys == {<<"a">>, <<"A">>, <<"_", "a">>, <<"1">>, <<"a", "_", "b">>}

\* The JSON values the normalizer is run on: scalars, objects with one or two
\* properties (built in property order), such objects nested in an object or
\* in an array.
JsonInputs ==
    LET scalars == {Scalar("null"), Scalar("x")}
        one     == {Object(SetProperty(<<>>, k, Scalar("x"))) : k \in Keys}
        two     == {Object(SetProperty(SetProperty(<<>>, k, Scalar("x")), k2, Scalar("y"))) :
                        k \in Keys, k2 \in OtherKeys}
        nested  == {Object(<< <<k2, o>> >>) : k2 \in OtherKeys, o \in one}
        arrays  == {Array(<<o, Scalar("x")>>) : o \in one} \cup {Array(<<>>)}
    IN  scalars \cup one \cup two \cup nested \cup arrays

\* const once = toCamelCaseKeys(data)
NormalizeOnce ==
    /\ kpc = "input"
    /\ once' = toCamelCaseKeys(data)
    /\ kpc' = "once"
    /\ UNCHANGED <<data, twice, configVars, probeVars, callVars, wordVars, addrVars>>

\* const twice = toCamelCaseKeys(once)
NormalizeTwice ==
    /\ kpc = "once"
    /\ twice' = toCamelCaseKeys(once)
    /\ kpc' = "twice"
    /\ UNCHANGED <<data, once, configVars, probeVars, callVars, wordVars, addrVars>>

-----------------------------------------------------------------------------
(* Runs of words and toCamelCase *)

\* The keys named by the documentation of the tokenizer.
LiteralKeys ==
    { <<"h","e","l","l","o","W","o","r","l","d">>,
      <<"H","E","L","L","O","W","o","r","l","d">>,
      <<"u","s","e","r","_","i","d">>,
      <<"I","P","A","d","d","r","e","s","s">>,
      <<"a","b","c","1","2","3","d","e","f">> }

\* The keys the tokenizer is run on: every string over KeyChars up to
\* MaxKeyLen characters, and the literal keys.
WordInputs == Keys \cup LiteralKeys

\* const segs = words(key)
Tokenize ==
    /\ wpc = "input"
    /\ segs' = words(key)
    /\ wpc' = "words"
    /\ UNCHANGED <<key, camel, configVars, probeVars, callVars, normVars, addrVars>>

\* const camel = toCamelCase(key)
Camelize ==
    /\ wpc = "words"
    /\ camel' = toCamelCase(key)
    /\ wpc' = "camel"
    /\ UNCHANGED <<key, segs, configVars, probeVars, callVars, normVars, addrVars>>

-----------------------------------------------------------------------------
(* isInTailscaleIpRange and the BlockList it consults *)

\* An address string is represented by what it parses to: kind "v4" is a
\* dotted quad a.b.c.d, kind "mapped" is the text ::ffff:a.b.c.d, kind "v6" is
\* eight colon separated 16 bit groups. parts holds the octets or the groups.
V4(octets)     == [kind |-> "v4", parts |-> octets]
Mapped(octets) == [kind |-> "mapped", parts |-> octets]
V6(groups)     == [kind |-> "v6", parts |-> groups]

\* The bits of n, most significant first, in a field of w bits.
ToBits(n, w) == [i \in 1..w |-> (n \div 2^(w - i)) % 2]

\* The bits of an address: 8 per octet, 16 per group.
AddressBits(parts, w) == Concat([i \in 1..Len(parts) |-> ToBits(parts[i], w)])

\* this.tailscaleCidr after the two addSubnet calls of the constructor.
tailscaleCidr ==
    { [family |-> "ipv4", net |-> <<100, 64, 0, 0>>, prefix |-> 10],
      [family |-> "ipv6", net |-> <<64890, 4444, 41440, 0, 0, 0, 0, 0>>, prefix |-> 48] }

\* The family an address string parses as; ::ffff:a.b.c.d is an IPv6 string.
FamilyOf(a) == IF a.kind = "v4" THEN "ipv4" ELSE "ipv6"

WidthOf(family) == IF family = "ipv4" THEN 8 ELSE 16

\* Whether a rule of the list contains an address of the rule's own family.
InSubnet(rule, parts) ==
    SubSeq(AddressBits(parts, WidthOf(rule.family)), 1, rule.prefix)
        = SubSeq(AddressBits(rule.net, WidthOf(rule.family)), 1, rule.prefix)

\* BlockList.check(address, family): the string must parse as an address of
\* the family passed; then the rules of that family are consulted.
ParsesAs(a, family) == FamilyOf(a) = family

BlockListCheck(a, family) ==
    /\ ParsesAs(a, family)
    /\ \E rule \in tailscaleCidr : rule.family = family /\ InSubnet(rule, a.parts)

\* ip.match(/::ffff:(\d+\.\d+\.\d+\.\d+)$/i): match[1] when the string matches.
MappedMatch(ip) == IF ip.kind = "mapped" THEN {V4(ip.parts)} ELSE {}

\* The string handed to check(); check is called with one argument, so the
\* family parameter takes its default, "ipv4".
Checked(ip) == IF MappedMatch(ip) # {} THEN CHOOSE m \in MappedMatch(ip) : TRUE ELSE ip

\* check(x) && x
isInTailscaleIpRange(ip) ==
    IF BlockListCheck(Checked(ip), "ipv4") THEN {Checked(ip)} ELSE {}

\* The addresses the method is run on: around the edges of 100.64.0.0/10, as
\* dotted quads and in the mapped form, and around fd7a:115c:a1e0::/48.
AddrInputs ==
    LET quads == {<<a, b, 0, d>> : a \in {8, 100, 101}, b \in {63, 64, 127, 128},
                                  d \in {1, 2}}
        sixes == {<<g1, g2, g3, g4, 0, 0, 0, g8>> :
                      g1 \in {64768, 64890, 64891}, g2 \in {4444, 4445},
                      g3 \in {41440, 41441}, g4 \in {0, 1, 65535}, g8 \in {1, 2}}
    IN  {V4(q) : q \in quads} \cup {Mapped(q) : q \in quads} \cup {V6(g) : g \in sixes}

\* The call returns.
IsInRangeReturn ==
    /\ apc = "input"
    /\ inRange' = isInTailscaleIpRange(addr)
    /\ apc' = "done"
    /\ UNCHANGED <<addr, configVars, probeVars, callVars, normVars, wordVars>>

\* check() is handed a string that does not parse as the default family; a
\* runtime whose check() does not swallow the address error throws it.
IsInRangeThrow ==
    /\ apc = "input"
    /\ ~ParsesAs(Checked(addr), "ipv4")
    /\ apc' = "threw"
    /\ UNCHANGED <<addr, inRange, configVars, probeVars, callVars, normVars, wordVars>>

-----------------------------------------------------------------------------
(* Specifications *)

NormIdle ==
    /\ data = Scalar("null") /\ once = Scalar("null") /\ twice = Scalar("null")
    /\ kpc = "idle"

WordIdle ==
    /\ key = <<>> /\ segs = <<>> /\ camel = <<>> /\ wpc = "idle"

AddrIdle ==
    /\ addr = [kind |-> "v4", parts |-> <<0, 0, 0, 0>>] /\ inRange = {} /\ apc = "idle"

KeyIdle == NormIdle /\ WordIdle /\ AddrIdle

ClientIdle ==
    /\ phase = "uninitialized"
    /\ environment = "unix"
    /\ useSocketOnly = FALSE
    /\ socketPath = ""
    /\ adapterPort = {}
    /\ adapterPassword = {}
    /\ baseUrl = SocketBaseUrl
    /\ fetchFn = "none"
    /\ ipnport = {}
    /\ sameuserproof = {}
    /\ retryCount = 0
    /\ probe = {}
    /\ timer = {}
    /\ ready = FALSE
    /\ exited = FALSE
    /\ probesIssued = 0
    /\ probesFailed = 0
    /\ inflight = {}
    /\ lastOutcome = [result |-> "none", reqs |-> 0]

\* The client before its construction; the normalizer is not running.
Init == ClientIdle /\ KeyIdle

Next ==
    \/ Construct
    \/ ProbeOk \/ ProbeNotOk \/ ProbeReject \/ TimerFire
    \/ whoIs \/ prefs \/ goroutines \/ daemonMetrics \/ userMetrics
    \/ incrementCounter \/ status \/ statusWithoutPeers \/ waitingFiles
    \/ deleteWaitingFile \/ getWaitingFile \/ fileTargets \/ pushFile
    \/ start \/ logout \/ startLoginInteractive
    \/ ApiReturn \/ ApiThrow

Spec == Init /\ [][Next]_vars

\* The key normalizer run on one JSON value, and on its own result.
KeyInit ==
    /\ ClientIdle
    /\ data \in JsonInputs
    /\ once = Scalar("null") /\ twice = Scalar("null")
    /\ kpc = "input"
    /\ WordIdle /\ AddrIdle

KeyNext == NormalizeOnce \/ NormalizeTwice

KeySpec == KeyInit /\ [][KeyNext]_vars

\* words and toCamelCase run on one key.
WordInit ==
    /\ ClientIdle /\ NormIdle /\ AddrIdle
    /\ key \in WordInputs
    /\ segs = <<>> /\ camel = <<>>
    /\ wpc = "input"

WordNext == Tokenize \/ Camelize

WordSpec == WordInit /\ [][WordNext]_vars

\* isInTailscaleIpRange runs on one address.
AddrInit ==
    /\ ClientIdle /\ NormIdle /\ WordIdle
    /\ addr \in AddrInputs
    /\ inRange = {}
    /\ apc = "input"

AddrNext == IsInRangeReturn \/ IsInRangeThrow

AddrSpec == AddrInit /\ [][AddrNext]_vars

\* Every probe request resolves or rejects, and every scheduled timer fires.
FairSpec ==
    /\ Init /\ [][Next]_vars
    /\ WF_vars(ProbeOk \/ ProbeNotOk \/ ProbeReject)
    /\ WF_vars(TimerFire)

-----------------------------------------------------------------------------
(* Properties of the transport manager *)

\* The requests issued through this.fetch that await a response.
DispatchedRequests ==
    probe \cup {c.req : c \in {d \in inflight : d.req.via = "dispatch"}}

\* The request uses the transport createFetchFn selected.
UsesSelectedTransport(r) ==
    IF useSocketOnly \/ environment # "macos"
    THEN /\ r.transport = "unix"
         /\ r.socket = {socketPath}
    ELSE /\ r.transport = "tcp"
         /\ r.url = [host |-> "127.0.0.1", port |-> adapterPort]
         /\ adapterPassword # {}
         /\ r.headers["Authorization"] =
                <<"Basic", " ">> \o Base64(<<":">> \o (CHOOSE p \in adapterPassword : TRUE))

\* C1 (as claimed): once 5 probes, counted from the constructor's first probe,
\* have failed, the process has exited and no probe is pending or in flight.
C1_ExitAfterFifthFailure ==
    probesFailed >= 5 => (exited /\ timer = {} /\ probe = {})

\* C1 (amended): the constructor's probe is followed by up to maxRetries = 5
\* retries; once the 6th probe has failed the process has exited and no probe
\* is pending or in flight, no 7th probe is ever issued, and the process exits
\* in no other situation.
C1_ExitAfterSixthFailure ==
    /\ probesIssued <= maxRetries + 1
    /\ probesFailed >= maxRetries + 1 => (exited /\ timer = {} /\ probe = {})
    /\ exited => (probesFailed = maxRetries + 1 /\ timer = {} /\ probe = {})

C1_Witness == exited /\ probesFailed = maxRetries + 1 /\ probesIssued = maxRetries + 1

\* C2: every request of an API call awaiting its response was sent through
\* the dispatch function and so uses the selected transport.
C2_AllCallsUseDispatch ==
    \A c \in inflight : c.req.via = "dispatch" /\ UsesSelectedTransport(c.req)

\* C3: on a constructed client adapterPort and adapterPassword are both set
\* if and only if environment is macos and useSocketOnly is false, otherwise
\* both are absent; and construction fails with a discovery error only in
\* that case.
C3_CredentialsIffTcpMode ==
    /\ phase = "constructed" =>
        IF environment = "macos" /\ ~useSocketOnly
        THEN adapterPort # {} /\ adapterPassword # {}
        ELSE adapterPort = {} /\ adapterPassword = {}
    /\ phase = "threw" => (environment = "macos" /\ ~useSocketOnly)

\* C4: once a probe got an ok response the transport manager stays ready: no
\* probe is in flight, no timer is pending, the process has not exited, and
\* retryCount and the number of probes issued no longer change.
C4_ReadyIsStable ==
    [][ /\ ready => ready'
        /\ ready' => (probe' = {} /\ timer' = {} /\ ~exited')
        /\ ready => (retryCount' = retryCount /\ probesIssued' = probesIssued
                     /\ probesFailed' = probesFailed) ]_vars

C4_Witness ==
    ready /\ retryCount > 0 /\ lastOutcome = [result |-> "thrown", reqs |-> 1]

\* 5000 * 1.5^n for n = 0..4 in units of 1/10 ms: 5000, 7500, 11250, 16875, 25312.5 ms.
DelaySchedule == <<50000, 75000, 112500, 168750, 253125>>

\* C5: a retry scheduled after a failure with retryCount = n waits exactly
\* 5000 * 1.5^n ms (uncapped, n = 0..4) and runs with retryCount n + 1;
\* retryCount grows by one per probe.
C5_BackoffSchedule ==
    /\ \A t \in timer :
        /\ retryCount \in 0..4
        /\ t.delay = DelaySchedule[retryCount + 1]
        /\ t.nextRetry = retryCount + 1
    /\ phase = "constructed" => probesIssued = retryCount + 1

C5_Witness ==
    \E t \in timer : t.nextRetry = maxRetries /\ t.delay = 253125

\* C6: under fair probe responses and timers the startup probe ends, either
\* ready or exited and never both.
C6_ProbeTerminates ==
    /\ [](~(ready /\ exited))
    /\ (phase = "constructed") ~> ((ready \/ exited) /\ probe = {} /\ timer = {})

C6_Witness == ready /\ probesFailed = maxRetries /\ probe = {} /\ timer = {}

\* Credential discovery fails in one of its steps on the macOS host.
DiscoveryFails ==
    \/ ipnport = {}
    \/ ~IsDecimal(CHOOSE t \in ipnport : TRUE)
    \/ sameuserproof = {}
    \/ trim(CHOOSE f \in sameuserproof : TRUE) = <<>>

\* C7: if credential discovery fails in any step (unreadable symlink, target
\* not a decimal number, unreadable or empty token file) the constructor
\* throws: no dispatch function, no probe, no credentials.
C7_DiscoveryFailureThrows ==
    (phase # "uninitialized" /\ environment = "macos" /\ DiscoveryFails) =>
        /\ phase = "threw"
        /\ fetchFn = "none"
        /\ probesIssued = 0 /\ probe = {}
        /\ adapterPort = {} /\ adapterPassword = {}

\* C8: every request sent through the dispatch function goes over the Unix
\* socket at socketPath with no Authorization header when useSocketOnly is
\* set or the environment is not macos, and otherwise to
\* http://127.0.0.1:<adapterPort> with Authorization = "Basic " +
\* base64(":" + adapterPassword) and Host = "local-tailscaled.sock".
C8_DispatchByMode ==
    \A r \in DispatchedRequests :
        /\ UsesSelectedTransport(r)
        /\ IF useSocketOnly \/ environment # "macos"
           THEN r.headers["Authorization"] = <<>>
           ELSE /\ r.headers["Host"] = <<"local-tailscaled.sock">>
                /\ adapterPassword = {<<"d", "e">>} =>
                       r.headers["Authorization"] = <<"Basic", " ", "O", "m", "R", "l">>

C8_Witness ==
    /\ environment = "macos" /\ ~useSocketOnly
    /\ \E c \in inflight :
        /\ c.req.method = "PUT"
        /\ c.req.headers["Content-Length"] # <<>>
        /\ c.req.headers["Authorization"] = <<"Basic", " ", "O", "m", "R", "l">>

\* C9: an API call that throws after its request failed has issued exactly
\* one request, is not retried, and leaves the other calls in flight, the
\* transport configuration and the startup-probe state as they were.
C9_FailedCallIsLocal ==
    [][ \A c \in inflight :
          (c \notin inflight' /\ lastOutcome'.result = "thrown") =>
              /\ c.reqs = 1
              /\ lastOutcome'.reqs = 1
              /\ inflight' = inflight \ {c}
              /\ configVars' = configVars
              /\ probeVars' = probeVars ]_vars

C9_Witness ==
    /\ lastOutcome = [result |-> "thrown", reqs |-> 1]
    /\ inflight # {}
    /\ probe # {} /\ retryCount > 0

-----------------------------------------------------------------------------
(* Properties of the key normalizer *)

\* C10: toCamelCaseKeys is idempotent: normalizing a normalized value changes
\* nothing.
C10_NormalizeIdempotent ==
    kpc = "twice" => twice = once

\* C11 (as claimed): toCamelCase("user_id") = "userId",
\* toCamelCase("IPAddress") = "ipAddress", toCamelCase("") = "", and a key
\* that tokenizes to zero words gives "".
C11_CamelLiterals ==
    wpc = "camel" =>
        /\ key = <<"u","s","e","r","_","i","d">> => camel = <<"u","s","e","r","I","d">>
        /\ key = <<"I","P","A","d","d","r","e","s","s">> =>
               camel = <<"i","p","A","d","d","r","e","s","s">>
        /\ segs = <<>> => camel = <<>>

\* C11 (amended): toCamelCase("user_id") = "userId", toCamelCase("IPAddress")
\* = "iPAddress" (only the first character of the first word "IP" is lower
\* cased), toCamelCase("") = "", and a key that tokenizes to zero words
\* gives "".
C11_CamelLiteralsAsCoded ==
    wpc = "camel" =>
        /\ key = <<"u","s","e","r","_","i","d">> => camel = <<"u","s","e","r","I","d">>
        /\ key = <<"I","P","A","d","d","r","e","s","s">> =>
               camel = <<"i","P","A","d","d","r","e","s","s">>
        /\ key = <<>> => (segs = <<>> /\ camel = <<>>)
        /\ segs = <<>> => camel = <<>>

C11_Witness ==
    /\ wpc = "camel"
    /\ key = <<"I","P","A","d","d","r","e","s","s">>
    /\ camel = <<"i","P","A","d","d","r","e","s","s">>

\* C12: words applies its rules left to right with first-match priority, so
\* words("helloWorld") = ["hello","World"], words("user_id") = ["user","id"],
\* words("IPAddress") = ["IP","Address"], words("abc123def") =
\* ["abc","123","def"]; wherever two uppercase letters are followed by a
\* lowercase letter, the word ends before the second uppercase letter, which
\* starts the next word together with the lowercase letter.
C12_TokenizerRules ==
    wpc \in {"words", "camel"} =>
        /\ key = <<"h","e","l","l","o","W","o","r","l","d">> =>
               segs = << <<"h","e","l","l","o">>, <<"W","o","r","l","d">> >>
        /\ key = <<"u","s","e","r","_","i","d">> =>
               segs = << <<"u","s","e","r">>, <<"i","d">> >>
        /\ key = <<"I","P","A","d","d","r","e","s","s">> =>
               segs = << <<"I","P">>, <<"A","d","d","r","e","s","s">> >>
        /\ key = <<"a","b","c","1","2","3","d","e","f">> =>
               segs = << <<"a","b","c">>, <<"1","2","3">>, <<"d","e","f">> >>
        /\ \A i \in 3..Len(key) :
               (IsUpper(key[i - 2]) /\ IsUpper(key[i - 1]) /\ IsLower(key[i])) =>
                   \E j \in 2..Len(segs) :
                       /\ segs[j - 1][Len(segs[j - 1])] = key[i - 2]
                       /\ Len(segs[j]) >= 2
                       /\ segs[j][1] = key[i - 1]
                       /\ segs[j][2] = key[i]

C12_Witness ==
    /\ wpc = "words"
    /\ key = <<"H","E","L","L","O","W","o","r","l","d">>
    /\ segs = << <<"H","E","L","L","O">>, <<"W","o","r","l","d">> >>

\* C15: the segments returned by words are non-empty, contain no separator,
\* and concatenated in order give the input with its separators removed.
C15_TokenizerOnlySplits ==
    wpc \in {"words", "camel"} =>
        /\ \A j \in 1..Len(segs) :
               /\ segs[j] # <<>>
               /\ \A n \in 1..Len(segs[j]) : segs[j][n] \notin WORD_SEPARATORS
        /\ Concat(segs) = SelectSeq(key, LAMBDA c : c \notin WORD_SEPARATORS)

C15_Witness ==
    /\ wpc = "words"
    /\ key = <<"A","B","a">>
    /\ segs = << <<"A">>, <<"B","a">> >>

\* out is src with only its mapping keys rewritten: a scalar is unchanged, an
\* array keeps its length and order with each element normalized, an object
\* has exactly the camelCase keys of its source, each once, holding the
\* normalized value of the last source property that maps to it.
KeysRewritten(src, out) ==
    IF src.t = "array"
    THEN /\ out.t = "array"
         /\ Len(out.items) = Len(src.items)
         /\ \A i \in 1..Len(src.items) : out.items[i] = toCamelCaseKeys(src.items[i])
    ELSE IF src.t = "object"
    THEN /\ out.t = "object"
         /\ {out.entries[j][1] : j \in 1..Len(out.entries)}
                = {toCamelCase(src.entries[i][1]) : i \in 1..Len(src.entries)}
         /\ \A j, n \in 1..Len(out.entries) :
                out.entries[j][1] = out.entries[n][1] => j = n
         /\ \A j \in 1..Len(out.entries) :
                \E i \in 1..Len(src.entries) :
                    /\ toCamelCase(src.entries[i][1]) = out.entries[j][1]
                    /\ \A n \in (i + 1)..Len(src.entries) :
                           toCamelCase(src.entries[n][1]) # out.entries[j][1]
                    /\ out.entries[j][2] = toCamelCaseKeys(src.entries[i][2])
    ELSE out = src

\* C13: toCamelCaseKeys never mutates its input and changes only mapping keys:
\* arrays keep length and order with element i normalized, scalars are
\* returned unchanged, objects are rebuilt with camelCase keys, two source
\* keys that map to the same key being resolved last-write-wins.
C13_OnlyKeysChange ==
    /\ [](kpc \in {"once", "twice"} => KeysRewritten(data, once))
    /\ [](kpc = "twice" => KeysRewritten(once, twice))
    /\ [][data' = data /\ (kpc = "once" => once' = once)]_vars

C13_Witness ==
    /\ kpc = "once"
    /\ data = Object(<< <<<<"A">>, Scalar("x")>>, <<<<"a">>, Scalar("y")>> >>)
    /\ once = Object(<< <<<<"a">>, Scalar("y")>> >>)

-----------------------------------------------------------------------------
(* Properties of the address range test *)

\* The subnet of the address's own family contains it: the high 10 bits are
\* those of 100.64.0.0, or the high 48 bits are those of fd7a:115c:a1e0::.
InOwnSubnet(a) ==
    IF a.kind = "v6"
    THEN a.parts[1] = 64890 /\ a.parts[2] = 4444 /\ a.parts[3] = 41440
    ELSE a.parts[1] = 100 /\ a.parts[2] \in 64..127

\* C14: isInTailscaleIpRange returns a truthy address string exactly when the
\* address lies in the subnet of its own family and false otherwise; the
\* mapped form ::ffff:a.b.c.d is unwrapped and its embedded IPv4 literal is
\* tested and returned; an IPv4 address is never matched against the IPv6
\* subnet nor the reverse.
C14_InRangeIffOwnSubnet ==
    apc = "done" =>
        /\ inRange # {} <=> InOwnSubnet(addr)
        /\ inRange # {} =>
               inRange = {IF addr.kind = "mapped" THEN V4(addr.parts) ELSE addr}

====
